---------------------------- MODULE Spec2Model ----------------------------
(***************************************************************************)
(* A model of the MachO/arm64 JITLink backend                              *)
(* (llvm/lib/ExecutionEngine/JITLink/MachO_arm64.cpp):                     *)
(*   - getRelocationKind, the decoder of a relocation record,            *)
(*   - addRelocations / parsePairRelocation, the relocation parser,        *)
(*   - MachO_arm64_GOTAndStubsBuilder, the GOT-and-stubs pass,             *)
(*   - MachOJITLinker_arm64::applyFixup, the fixup applier,                *)
(*   - jitLink_MachO_arm64, the link entry point.                          *)
(*                                                                         *)
(* TLC's integers are 32 bits wide, the program's are 32 and 64 bits wide  *)
(* and unsigned: a machine word is modelled as four 16-bit limbs, least    *)
(* significant first (the little-endian order of the bytes in memory), and *)
(* every arithmetic or bitwise operation of the code is computed on limbs, *)
(* modulo 2^64 (or 2^32 after a conversion to uint32_t).                   *)
(***************************************************************************)
EXTENDS Integers, Sequences, FiniteSets, TLC

VARIABLES
    RI,        \* SpecKind: the relocation_info handed to getRelocationKind
    Kind,      \* SpecKind: what getRelocationKind returned ("none" before)
    ndebug,    \* the build: TRUE when assert() is compiled out (NDEBUG)
    Relocs,    \* the relocation records of the section, in file order
    RelItr,    \* addRelocations' iterator: the 1-based index of the record it is at
    overrun,   \* how many records were read at or past relocation_end()
    phase,     \* "parse", "parsed", "built", "allocated", "fixed",
               \* "error" (an Error was returned), "abort" (a failed assert or
               \* llvm_unreachable), "crash" (report_fatal_error)
    error,     \* the message of the Error returned, "" when none
    blocks,    \* the graph's blocks: address, size, content, edges, section
    symbols,   \* the graph's symbols: name, block (0: none), offset, defined, address
    parsed,    \* the blocks as the parser left them, kept when the pass runs
    cursor,    \* the fixup loop: <<block, edge>> of the next edge to apply
    pc,        \* jitLink_MachO_arm64: the call on the context it is about to make
    Config,    \* jitLink_MachO_arm64: the PassConfiguration
    calls      \* the calls jitLink_MachO_arm64 has made, in order, with what they gave

kindVars == <<RI, Kind>>
graphVars == <<ndebug, Relocs, RelItr, overrun, phase, error, blocks, symbols, parsed, cursor>>
linkVars == <<pc, Config, calls>>
vars == <<RI, Kind, ndebug, Relocs, RelItr, overrun, phase, error, blocks, symbols, parsed, cursor,
          pc, Config, calls>>

\* A PassConfiguration as its constructor leaves it, and the state of the link
\* entry point when it is not what runs.
EmptyConfig == [PrePrunePasses |-> <<>>, PostPrunePasses |-> <<>>]
NotLinking == pc = "idle" /\ Config = EmptyConfig /\ calls = <<>>

----------------------------------------------------------------------------
(* Machine words.                                                          *)

Limb == 2^16
HalfLimb == 2^15

W32(hi, lo) == <<lo, hi, 0, 0>>
W64(l3, l2, l1, l0) == <<l0, l1, l2, l3>>
Zero64 == <<0, 0, 0, 0>>
One64 == <<1, 0, 0, 0>>

\* A natural number below 2^31 as a word.
FromNat(n) == <<n % Limb, n \div Limb, 0, 0>>

Add64(a, b) ==
    LET s1 == a[1] + b[1]
        s2 == a[2] + b[2] + (s1 \div Limb)
        s3 == a[3] + b[3] + (s2 \div Limb)
        s4 == a[4] + b[4] + (s3 \div Limb)
    IN  <<s1 % Limb, s2 % Limb, s3 % Limb, s4 % Limb>>

Not64(a) == <<Limb - 1 - a[1], Limb - 1 - a[2], Limb - 1 - a[3], Limb - 1 - a[4]>>
Neg64(a) == Add64(Not64(a), One64)
Sub64(a, b) == Add64(a, Neg64(b))

\* An integer of magnitude below 2^31 as a word (two's complement).
FromInt(i) == IF i >= 0 THEN FromNat(i) ELSE Neg64(FromNat(-i))

\* The sign bit of a word read as int64_t.
IsNeg64(a) == a[4] >= HalfLimb

\* Unsigned and signed order.
ULt64(a, b) ==
    \E i \in 1..4 : a[i] < b[i] /\ \A j \in (i+1)..4 : a[j] = b[j]
ULe64(a, b) == a = b \/ ULt64(a, b)
SLt64(a, b) ==
    IF IsNeg64(a) # IsNeg64(b) THEN IsNeg64(a) ELSE ULt64(a, b)

\* The word read as int64_t is a number of magnitude below 2^31.
Fits31(a) ==
    LET m == IF IsNeg64(a) THEN Neg64(a) ELSE a
    IN  m[3] = 0 /\ m[4] = 0 /\ m[2] < HalfLimb
\* ... and that number.
SInt(a) ==
    LET m == IF IsNeg64(a) THEN Neg64(a) ELSE a
        v == m[1] + Limb * m[2]
    IN  IF IsNeg64(a) THEN 0 - v ELSE v

RECURSIVE And16(_, _)
And16(x, y) ==
    IF x = 0 \/ y = 0 THEN 0
    ELSE (x % 2) * (y % 2) + 2 * And16(x \div 2, y \div 2)
RECURSIVE Or16(_, _)
Or16(x, y) ==
    IF x = 0 THEN y ELSE IF y = 0 THEN x
    ELSE (IF x % 2 = 1 \/ y % 2 = 1 THEN 1 ELSE 0) + 2 * Or16(x \div 2, y \div 2)

And64(a, b) == <<And16(a[1], b[1]), And16(a[2], b[2]), And16(a[3], b[3]), And16(a[4], b[4])>>
Or64(a, b) == <<Or16(a[1], b[1]), Or16(a[2], b[2]), Or16(a[3], b[3]), Or16(a[4], b[4])>>

\* a >> k and a << k on 64 bits, 0 <= k < 64.
RECURSIVE Shr64(_, _)
Shr64(a, k) ==
    IF k >= 16 THEN Shr64(<<a[2], a[3], a[4], 0>>, k - 16)
    ELSE LET d == 2^k
             u == 2^(16 - k)
         IN  <<(a[1] \div d) + (a[2] % d) * u, (a[2] \div d) + (a[3] % d) * u,
               (a[3] \div d) + (a[4] % d) * u, a[4] \div d>>
RECURSIVE Shl64(_, _)
Shl64(a, k) ==
    IF k >= 16 THEN Shl64(<<0, a[1], a[2], a[3]>>, k - 16)
    ELSE LET d == 2^(16 - k)
             u == 2^k
         IN  <<(a[1] % d) * u, (a[2] % d) * u + (a[1] \div d),
               (a[3] % d) * u + (a[2] \div d), (a[4] % d) * u + (a[3] \div d)>>

\* static_cast<uint32_t>.
Trunc32(a) == <<a[1], a[2], 0, 0>>
\* << on uint32_t.
Shl32(a, k) == Trunc32(Shl64(a, k))
\* The conversion of an int32_t or uint32_t bit pattern to int64_t / uint64_t.
SExt32(a) == IF a[2] >= HalfLimb THEN <<a[1], a[2], Limb - 1, Limb - 1>> ELSE Trunc32(a)

----------------------------------------------------------------------------
(* Relocation records and their decoding.                                  *)

\* MachO::RelocationInfoTypeARM64.
ARM64_RELOC_UNSIGNED == 0
ARM64_RELOC_SUBTRACTOR == 1
ARM64_RELOC_BRANCH26 == 2
ARM64_RELOC_PAGE21 == 3
ARM64_RELOC_PAGEOFF12 == 4
ARM64_RELOC_GOT_LOAD_PAGE21 == 5
ARM64_RELOC_GOT_LOAD_PAGEOFF12 == 6
ARM64_RELOC_POINTER_TO_GOT == 7
ARM64_RELOC_ADDEND == 10

\* The error of getRelocationKind.
UnsupportedRelocation == "Unsupported arm64 relocation"

\* The ARM64_RELOC_UNSIGNED case with Pointer32 for extern records only.
UnsignedKind_ExternPointer32(R) ==
    IF R.r_pcrel = 0 /\ R.r_length = 3
    THEN (IF R.r_extern = 1 THEN "Pointer64" ELSE "Pointer64Anon")
    ELSE IF R.r_pcrel = 0 /\ R.r_length = 2 /\ R.r_extern = 1 THEN "Pointer32"
    ELSE UnsupportedRelocation

\* The ARM64_RELOC_UNSIGNED case of getRelocationKind.
UnsignedKind(R) ==
    IF R.r_pcrel = 0 /\ R.r_length = 3
    THEN (IF R.r_extern = 1 THEN "Pointer64" ELSE "Pointer64Anon")
    ELSE IF R.r_pcrel = 0 /\ R.r_length = 2 THEN "Pointer32"
    ELSE UnsupportedRelocation

\* MachOLinkGraphBuilder_arm64::getRelocationKind: the edge kind of a record,
\* or the error.
getRelocationKind(R) ==
    CASE R.r_type = ARM64_RELOC_UNSIGNED -> UnsignedKind(R)
      [] R.r_type = ARM64_RELOC_SUBTRACTOR /\ R.r_pcrel = 0 /\ R.r_extern = 1
             /\ R.r_length = 2 -> "Delta32"
      [] R.r_type = ARM64_RELOC_SUBTRACTOR /\ R.r_pcrel = 0 /\ R.r_extern = 1
             /\ R.r_length = 3 -> "Delta64"
      [] R.r_type = ARM64_RELOC_BRANCH26 /\ R.r_pcrel = 1 /\ R.r_extern = 1
             /\ R.r_length = 2 -> "Branch26"
      [] R.r_type = ARM64_RELOC_PAGE21 /\ R.r_pcrel = 1 /\ R.r_extern = 1
             /\ R.r_length = 2 -> "Page21"
      [] R.r_type = ARM64_RELOC_PAGEOFF12 /\ R.r_pcrel = 0 /\ R.r_extern = 1
             /\ R.r_length = 2 -> "PageOffset12"
      [] R.r_type = ARM64_RELOC_GOT_LOAD_PAGE21 /\ R.r_pcrel = 1 /\ R.r_extern = 1
             /\ R.r_length = 2 -> "GOTPage21"
      [] R.r_type = ARM64_RELOC_GOT_LOAD_PAGEOFF12 /\ R.r_pcrel = 0 /\ R.r_extern = 1
             /\ R.r_length = 2 -> "GOTPageOffset12"
      [] R.r_type = ARM64_RELOC_POINTER_TO_GOT /\ R.r_pcrel = 1 /\ R.r_extern = 1
             /\ R.r_length = 2 -> "PointerToGOT"
      [] R.r_type = ARM64_RELOC_ADDEND /\ R.r_pcrel = 0 /\ R.r_extern = 0
             /\ R.r_length = 2 -> "PairedAddend"
      [] OTHER -> UnsupportedRelocation

----------------------------------------------------------------------------
(* The link graph.                                                         *)

\* The content of a block: its 16-bit units by their (even) byte offset, least
\* significant unit of a word first.
Read32(c, off) == <<c[off], c[off + 2], 0, 0>>
Read64(c, off) == <<c[off], c[off + 2], c[off + 4], c[off + 6]>>
Write32(c, off, w) ==
    [o \in DOMAIN c |-> IF o = off THEN w[1] ELSE IF o = off + 2 THEN w[2] ELSE c[o]]
Write64(c, off, w) ==
    [o \in DOMAIN c |-> IF o \in {off, off + 2, off + 4, off + 6}
                        THEN w[(o - off) \div 2 + 1] ELSE c[o]]

Edge(k, off, t, a) == [kind |-> k, offset |-> off, target |-> t, addend |-> a]

\* Block::addEdge.
addEdge(blks, b, k, off, t, a) ==
    [blks EXCEPT ![b].edges = Append(@, Edge(k, off, t, a))]

\* Symbol::getAddress: the address of the symbol's addressable plus its offset.
getAddress(blks, syms, s) ==
    IF syms[s].block # 0 THEN Add64(blks[syms[s].block].address, FromNat(syms[s].offset))
    ELSE syms[s].address

\* Symbol::isDefined.
isDefined(syms, s) == syms[s].defined

----------------------------------------------------------------------------
(* The object file the parser reads: one section of two blocks, a code     *)
(* block "A" and a data block "B", and four symbols, two of them external. *)

SectionAddress == \h1000
BlockSize == \h10

Rec(t, p, e, l, a, s) ==
    [r_type |-> t, r_pcrel |-> p, r_extern |-> e, r_length |-> l,
     r_address |-> a, r_symbolnum |-> s]

\* What a read past the last byte of the object buffer gives.
EndOfBuffer == [r_type |-> "none"]

\* BL, ADRP x0, LDR x0,[x0] and a zero word; then a zero 8-byte word and an
\* 8-byte word holding the address of A + 8.
CodeContent ==
    (0 :> 0) @@ (2 :> \h9400) @@ (4 :> 0) @@ (6 :> \h9000) @@
    (8 :> 0) @@ (10 :> \hf940) @@ (12 :> 0) @@ (14 :> 0)
DataContent ==
    (0 :> 0) @@ (2 :> 0) @@ (4 :> 0) @@ (6 :> 0) @@
    (8 :> \h1008) @@ (10 :> 0) @@ (12 :> 0) @@ (14 :> 0)

ObjectBlocks ==
    << [address |-> FromNat(SectionAddress), size |-> BlockSize, content |-> CodeContent,
        edges |-> <<>>, section |-> "__text"],
       [address |-> FromNat(SectionAddress + BlockSize), size |-> BlockSize,
        content |-> DataContent, edges |-> <<>>, section |-> "__text"] >>

ObjectSymbols ==
    << [name |-> "A", block |-> 1, offset |-> 0, defined |-> TRUE, address |-> Zero64],
       [name |-> "B", block |-> 2, offset |-> 0, defined |-> TRUE, address |-> Zero64],
       [name |-> "foo", block |-> 0, offset |-> 0, defined |-> FALSE, address |-> Zero64],
       [name |-> "bar", block |-> 0, offset |-> 0, defined |-> FALSE, address |-> Zero64] >>

\* Obj.getSymtabLoadCommand().nsyms.
NumSymbols == Len(ObjectSymbols)

\* MachOLinkGraphBuilder::findSymbolByIndex: the graph symbol of a symbol-table
\* index, 0 when there is none.
findSymbolByIndex(n) == IF n < NumSymbols THEN n + 1 ELSE 0

\* MachOLinkGraphBuilder::findSymbolByAddress: the symbol whose block covers
\* the address, 0 when there is none.
findSymbolByAddress(addr) ==
    LET covering == {s \in 1..NumSymbols :
                        /\ symbols[s].block # 0
                        /\ ULe64(blocks[symbols[s].block].address, addr)
                        /\ ULt64(addr, Add64(blocks[symbols[s].block].address,
                                             FromNat(blocks[symbols[s].block].size)))
                        /\ ULe64(getAddress(blocks, symbols, s), addr)}
    IN  IF covering = {} THEN 0
        ELSE CHOOSE s \in covering :
                 \A t \in covering :
                     ULe64(getAddress(blocks, symbols, t), getAddress(blocks, symbols, s))

----------------------------------------------------------------------------
(* The relocation parser.                                                  *)

MaxRelocs == 3
MaxOverrun == 1

\* relocation_end() of the section.
RelEnd == Len(Relocs) + 1

\* getRelocationInfo: the record at an iterator. The iterator is an index into
\* the object buffer, nothing keeps it below relocation_end(): a read at or
\* past the end gives the bytes that follow the section's records in the buffer
\* (g, any record), and a read past the end of the buffer is a fatal error.
\* n is the number of such reads made before this one.
getRelocationInfo(i, g, n) ==
    IF i <= Len(Relocs) THEN Relocs[i]
    ELSE IF n >= MaxOverrun THEN EndOfBuffer
    ELSE g

\* 1 when a read at iterator i is a read at or past relocation_end().
PastEnd(i) == IF i > Len(Relocs) THEN 1 ELSE 0

\* The outcome of one part of an iteration: failed with an Error, or crashed.
Failed(msg, it, n) == [status |-> "error", error |-> msg, RelItr |-> it, overrun |-> n]
Crashed(it, n) == [status |-> "crash", error |-> "Malformed MachO file", RelItr |-> it,
                   overrun |-> n]

NegDeltaAddend_Added(FixupValue, FixupAddress, ToAddress) ==
    Add64(FixupValue, Sub64(FixupAddress, ToAddress))

\* The addend of a NegDelta edge: FixupValue - (FixupAddress - ToSymbol address).
NegDeltaAddend(FixupValue, FixupAddress, ToAddress) ==
    Sub64(FixupValue, Sub64(FixupAddress, ToAddress))

\* parsePairRelocation: the paired SUBTRACTOR/UNSIGNED records. The asserts on
\* SubRI (extern, not pc-relative, length 2 for Delta32 and 3 for Delta64) are
\* what getRelocationKind checked before it returned the kind.
parsePairRelocation(BlockToFix, SubRI, FixupAddress, UnsignedRelItr, g, n) ==
    IF UnsignedRelItr = RelEnd
    THEN Failed("arm64 SUBTRACTOR without paired UNSIGNED relocation", UnsignedRelItr, n)
    ELSE
    LET UnsignedRI == getRelocationInfo(UnsignedRelItr, g, n)
        n2 == n + PastEnd(UnsignedRelItr)
    IN
    IF UnsignedRI = EndOfBuffer THEN Crashed(UnsignedRelItr, n2)
    ELSE IF SubRI.r_address # UnsignedRI.r_address
    THEN Failed("arm64 SUBTRACTOR and paired UNSIGNED point to different addresses",
                UnsignedRelItr, n2)
    ELSE IF SubRI.r_length # UnsignedRI.r_length
    THEN Failed("length of arm64 SUBTRACTOR and paired UNSIGNED reloc must match",
                UnsignedRelItr, n2)
    ELSE
    LET FromSymbol == findSymbolByIndex(SubRI.r_symbolnum) IN
    IF FromSymbol = 0 THEN Failed("Symbol index out of range", UnsignedRelItr, n2)
    ELSE
    LET off == SInt(Sub64(FixupAddress, blocks[BlockToFix].address))
        content == blocks[BlockToFix].content
        \* little64_t, or little32_t converted to uint64_t
        FixupValue0 == IF SubRI.r_length = 3 THEN Read64(content, off)
                       ELSE SExt32(Read32(content, off))
        ToSymbol == IF UnsignedRI.r_extern = 1
                    THEN findSymbolByIndex(UnsignedRI.r_symbolnum)
                    ELSE findSymbolByAddress(FixupValue0)
    IN
    IF ToSymbol = 0
    THEN Failed(IF UnsignedRI.r_extern = 1 THEN "Symbol index out of range"
                ELSE "No symbol covering address", UnsignedRelItr, n2)
    ELSE
    LET FixupValue == IF UnsignedRI.r_extern = 1 THEN FixupValue0
                      ELSE Sub64(FixupValue0, getAddress(blocks, symbols, ToSymbol))
    IN
    IF symbols[FromSymbol].block = BlockToFix
    THEN [status |-> "ok", error |-> "", RelItr |-> UnsignedRelItr, overrun |-> n2,
          kind |-> IF SubRI.r_length = 3 THEN "Delta64" ELSE "Delta32",
          target |-> ToSymbol,
          addend |-> Add64(FixupValue,
                           Sub64(FixupAddress, getAddress(blocks, symbols, FromSymbol)))]
    ELSE IF symbols[ToSymbol].block = BlockToFix
    THEN [status |-> "ok", error |-> "", RelItr |-> UnsignedRelItr, overrun |-> n2,
          kind |-> IF SubRI.r_length = 3 THEN "NegDelta64" ELSE "NegDelta32",
          target |-> FromSymbol,
          addend |-> NegDeltaAddend(FixupValue, FixupAddress,
                                    getAddress(blocks, symbols, ToSymbol))]
    ELSE Failed("SUBTRACTOR relocation must fix up either 'A' or 'B'", UnsignedRelItr, n2)

\* addRelocations, the PairedAddend branch: the addend is the record's
\* r_symbolnum and the record that follows is the one to process. The test
\* "RelItr == RelEnd" is made before the increment.
pairedAddend(R1, FixupAddress, g, n) ==
    IF RelItr = RelEnd THEN Failed("Unpaired Addend reloc", RelItr, n)
    ELSE
    LET it == RelItr + 1
        R2 == getRelocationInfo(it, g, n)
        n2 == n + PastEnd(it)
    IN
    IF R2 = EndOfBuffer THEN Crashed(it, n2)
    ELSE IF getRelocationKind(R2) = UnsupportedRelocation
    THEN Failed(UnsupportedRelocation, it, n2)
    ELSE IF getRelocationKind(R2) \notin {"Branch26", "Page21", "PageOffset12"}
    THEN Failed("Invalid relocation pair: Addend + kind", it, n2)
    ELSE IF Add64(FromNat(SectionAddress), FromNat(R2.r_address)) # FixupAddress
    THEN Failed("Paired relocation points at different target", it, n2)
    ELSE [status |-> "ok", error |-> "", RelItr |-> it, overrun |-> n2, RI |-> R2,
          kind |-> getRelocationKind(R2), addend |-> FromNat(R1.r_symbolnum)]

\* The masks and opcodes the parser checks an instruction against.
BranchMask == W32(\h7fff, \hffff)
BranchOpcode == W32(\h1400, \h0000)
ADRPMask == W32(\hffff, \hffe0)
ADRPOpcode == W32(\h9000, \h0000)
LDRImm64Mask == W32(\hffff, \hfc00)
LDRImm64Opcode == W32(\hf940, \h0000)

\* addRelocations, the switch on the kind: the target symbol and the addend.
resolveTarget(BlockToFix, K, R, FixupAddress, Addend, it, g, n) ==
    LET off == SInt(Sub64(FixupAddress, blocks[BlockToFix].address))
        content == blocks[BlockToFix].content
        Instr == Read32(content, off)
        bySym == findSymbolByIndex(R.r_symbolnum)
        Resolved(t, a) == [status |-> "ok", error |-> "", RelItr |-> it, overrun |-> n,
                           kind |-> K, target |-> t, addend |-> a]
        NoSymbol == Failed("Symbol index out of range", it, n)
    IN
    CASE K = "Branch26" ->
             IF bySym = 0 THEN NoSymbol
             ELSE IF And64(Instr, BranchMask) # BranchOpcode
             THEN Failed("BRANCH26 target is not a B or BL instruction with a zero addend",
                         it, n)
             ELSE Resolved(bySym, Addend)
      [] K = "Pointer32" ->
             IF bySym = 0 THEN NoSymbol ELSE Resolved(bySym, Read32(content, off))
      [] K = "Pointer64" ->
             IF bySym = 0 THEN NoSymbol ELSE Resolved(bySym, Read64(content, off))
      [] K = "Pointer64Anon" ->
             LET TargetAddress == Read64(content, off)
                 t == findSymbolByAddress(TargetAddress)
             IN  IF t = 0 THEN Failed("No symbol covering address", it, n)
                 ELSE Resolved(t, Sub64(TargetAddress, getAddress(blocks, symbols, t)))
      [] K \in {"Page21", "GOTPage21"} ->
             IF bySym = 0 THEN NoSymbol
             ELSE IF And64(Instr, ADRPMask) # ADRPOpcode
             THEN Failed("PAGE21/GOTPAGE21 target is not an ADRP instruction with a zero addend",
                         it, n)
             ELSE Resolved(bySym, Addend)
      [] K = "PageOffset12" ->
             IF bySym = 0 THEN NoSymbol ELSE Resolved(bySym, Addend)
      [] K = "GOTPageOffset12" ->
             IF bySym = 0 THEN NoSymbol
             ELSE IF And64(Instr, LDRImm64Mask) # LDRImm64Opcode
             THEN Failed("GOTPAGEOFF12 target is not an LDR immediate instruction with a zero addend",
                         it, n)
             ELSE Resolved(bySym, Addend)
      [] K = "PointerToGOT" ->
             IF bySym = 0 THEN NoSymbol ELSE Resolved(bySym, Addend)
      [] K \in {"Delta32", "Delta64"} ->
             parsePairRelocation(BlockToFix, R, FixupAddress, it + 1, g, n)

\* One iteration of addRelocations' loop over the records of the section.
\* g1 and g2 are what the reads at or past relocation_end() give, if any.
parseIteration(g1, g2) ==
    LET R1 == getRelocationInfo(RelItr, g1, overrun)
        n1 == overrun + PastEnd(RelItr)
    IN
    IF R1 = EndOfBuffer THEN Crashed(RelItr, n1)
    ELSE IF getRelocationKind(R1) = UnsupportedRelocation
    THEN Failed(UnsupportedRelocation, RelItr, n1)
    ELSE
    LET FixupAddress == Add64(FromNat(SectionAddress), FromNat(R1.r_address))
        SymbolToFix == findSymbolByAddress(FixupAddress)
    IN
    IF SymbolToFix = 0 THEN Failed("No symbol covering address", RelItr, n1)
    ELSE
    LET BlockToFix == symbols[SymbolToFix].block IN
    IF ULt64(Add64(blocks[BlockToFix].address, FromNat(blocks[BlockToFix].size)),
             Add64(FixupAddress, FromNat(2^R1.r_length)))
    THEN Failed("Relocation content extends past end of fixup block", RelItr, n1)
    ELSE
    LET P == IF getRelocationKind(R1) = "PairedAddend"
             THEN pairedAddend(R1, FixupAddress, g2, n1)
             ELSE [status |-> "ok", error |-> "", RelItr |-> RelItr, overrun |-> n1,
                   RI |-> R1, kind |-> getRelocationKind(R1), addend |-> Zero64]
    IN
    IF P.status # "ok" THEN P
    ELSE
    LET T == resolveTarget(BlockToFix, P.kind, P.RI, FixupAddress, P.addend, P.RelItr,
                           g2, P.overrun)
    IN
    IF T.status # "ok" THEN T
    ELSE [status |-> "ok", error |-> "", RelItr |-> T.RelItr + 1, overrun |-> T.overrun,
          blocks |-> addEdge(blocks, BlockToFix, T.kind,
                             SInt(Sub64(FixupAddress, blocks[BlockToFix].address)),
                             T.target, T.addend)]

\* What the bytes after the section's records may hold.
Garbage ==
    { EndOfBuffer,
      Rec(ARM64_RELOC_BRANCH26, 1, 1, 2, 0, 2),
      Rec(ARM64_RELOC_PAGE21, 1, 1, 2, 4, 1),
      Rec(ARM64_RELOC_UNSIGNED, 0, 1, 3, 16, 1),
      Rec(ARM64_RELOC_SUBTRACTOR, 0, 1, 3, 16, 0),
      Rec(ARM64_RELOC_ADDEND, 0, 0, 2, 0, 8),
      Rec(15, 1, 1, 3, 0, 0) }

\* What a read at iterator i may give that the section's records do not decide.
GarbageAt(i) == IF i > Len(Relocs) /\ overrun < MaxOverrun THEN Garbage ELSE {EndOfBuffer}

\* An iteration of the loop of addRelocations.
ParseStep ==
    /\ phase = "parse"
    /\ RelItr # RelEnd
    /\ \E g1 \in GarbageAt(RelItr), g2 \in GarbageAt(RelItr + 1) :
          \E r \in {parseIteration(g1, g2)} :
          /\ phase' = (IF r.status = "ok" THEN "parse" ELSE r.status)
          /\ error' = r.error
          /\ RelItr' = r.RelItr
          /\ overrun' = r.overrun
          /\ blocks' = (IF r.status = "ok" THEN r.blocks ELSE blocks)
    /\ UNCHANGED <<ndebug, Relocs, symbols, parsed, cursor, kindVars, linkVars>>

\* The end of the loop: addRelocations returns Error::success().
ParseDone ==
    /\ phase = "parse"
    /\ RelItr = RelEnd
    /\ phase' = "parsed"
    /\ UNCHANGED <<ndebug, Relocs, RelItr, overrun, error, blocks, symbols, parsed, cursor, kindVars, linkVars>>

----------------------------------------------------------------------------
(* The GOT-and-stubs pass. G is the graph with the builder's two caches.   *)

NullGOTEntryContent == (0 :> 0) @@ (2 :> 0) @@ (4 :> 0) @@ (6 :> 0)
\* LDR x16, <literal> ; BR x16
StubContent == (0 :> \h0010) @@ (2 :> \h5800) @@ (4 :> \h0200) @@ (6 :> \hd61f)

\* LinkGraph::createContentBlock.
createContentBlock(G, sec, content) ==
    [G EXCEPT !.blocks = Append(@, [address |-> Zero64, size |-> 8, content |-> content,
                                    edges |-> <<>>, section |-> sec])]

\* LinkGraph::addAnonymousSymbol: a defined symbol at offset 0 of the block.
addAnonymousSymbol(G, b) ==
    [G EXCEPT !.symbols = Append(@, [name |-> "", block |-> b, offset |-> 0,
                                     defined |-> TRUE, address |-> Zero64]),
              !.result = Len(G.symbols) + 1]

isGOTEdge(E) == E.kind \in {"GOTPage21", "GOTPageOffset12", "PointerToGOT"}

createGOTEntry(G, Target) ==
    LET G1 == createContentBlock(G, "$__GOT", NullGOTEntryContent)
        b == Len(G1.blocks)
        G2 == [G1 EXCEPT !.blocks = addEdge(@, b, "Pointer64", 0, Target, Zero64)]
    IN  addAnonymousSymbol(G2, b)

\* BasicGOTAndStubsBuilder::getGOTEntrySymbol: the GOT entry of the target,
\* created on the first request.
getGOTEntrySymbol(G, Target) ==
    IF Target \in DOMAIN G.GOTEntries
    THEN [G EXCEPT !.result = G.GOTEntries[Target]]
    ELSE LET G1 == createGOTEntry(G, Target)
         IN  [G1 EXCEPT !.GOTEntries = (Target :> G1.result) @@ @]

\* fixGOTEdge with PointerToGOT retargeted and its kind kept.
fixGOTEdge_KeepKind(E, GOTEntry) == [E EXCEPT !.target = GOTEntry]

fixGOTEdge(E, GOTEntry) ==
    IF E.kind \in {"GOTPage21", "GOTPageOffset12"}
    THEN [E EXCEPT !.target = GOTEntry]
    ELSE [E EXCEPT !.target = GOTEntry, !.kind = "Delta32"]

isExternalBranchEdge(G, E) == E.kind = "Branch26" /\ ~isDefined(G.symbols, E.target)

\* createStub with a GOT entry of its own for the stub.
createStub_OwnGOTEntry(G, Target) ==
    LET G1 == createContentBlock(G, "$__STUBS", StubContent)
        b == Len(G1.blocks)
        G2 == createGOTEntry(G1, Target)
        G3 == [G2 EXCEPT !.blocks = addEdge(@, b, "LDRLiteral19", 0, G2.result, Zero64)]
    IN  addAnonymousSymbol(G3, b)

createStub(G, Target) ==
    LET G1 == createContentBlock(G, "$__STUBS", StubContent)
        b == Len(G1.blocks)
        G2 == getGOTEntrySymbol(G1, Target)
        G3 == [G2 EXCEPT !.blocks = addEdge(@, b, "LDRLiteral19", 0, G2.result, Zero64)]
    IN  addAnonymousSymbol(G3, b)

\* BasicGOTAndStubsBuilder::getStubSymbol: the stub of the target, created on
\* the first request.
getStubSymbol(G, Target) ==
    IF Target \in DOMAIN G.Stubs
    THEN [G EXCEPT !.result = G.Stubs[Target]]
    ELSE LET G1 == createStub(G, Target)
         IN  [G1 EXCEPT !.Stubs = (Target :> G1.result) @@ @]

\* fixExternalBranchEdge: the two asserts, then the retargeting. The kind is
\* Branch26 by isExternalBranchEdge; a non-zero addend aborts a build with
\* assertions and is ignored by one without.
fixExternalBranchEdge(G, b, i, Stub) ==
    IF G.blocks[b].edges[i].addend # Zero64 /\ ~ndebug
    THEN [G EXCEPT !.abort = TRUE]
    ELSE [G EXCEPT !.blocks[b].edges[i].target = Stub]

\* BasicGOTAndStubsBuilder::run, from edge i of block b on: every edge of every
\* block the graph had when the pass started (nb of them), in order.
RECURSIVE runFrom(_, _, _, _)
runFrom(G, nb, b, i) ==
    IF G.abort \/ b > nb THEN G
    ELSE IF i > Len(G.blocks[b].edges) THEN runFrom(G, nb, b + 1, 1)
    ELSE
    LET E == G.blocks[b].edges[i] IN
    IF isGOTEdge(E)
    THEN LET G1 == getGOTEntrySymbol(G, E.target)
         IN  runFrom([G1 EXCEPT !.blocks[b].edges[i] = fixGOTEdge(E, G1.result)],
                     nb, b, i + 1)
    ELSE IF isExternalBranchEdge(G, E)
    THEN LET G1 == getStubSymbol(G, E.target)
         IN  runFrom(fixExternalBranchEdge(G1, b, i, G1.result), nb, b, i + 1)
    ELSE runFrom(G, nb, b, i + 1)

run(blks, syms) ==
    runFrom([blocks |-> blks, symbols |-> syms, GOTEntries |-> <<>>, Stubs |-> <<>>,
             result |-> 0, abort |-> FALSE], Len(blks), 1, 1)

\* The post-prune pass jitLink_MachO_arm64 installs:
\* MachO_arm64_GOTAndStubsBuilder(G).run().
RunGOTAndStubs ==
    /\ phase = "parsed"
    /\ LET G == run(blocks, symbols) IN
          /\ blocks' = G.blocks
          /\ symbols' = G.symbols
          /\ phase' = (IF G.abort THEN "abort" ELSE "built")
    /\ parsed' = blocks
    /\ UNCHANGED <<ndebug, Relocs, RelItr, overrun, error, cursor, kindVars, linkVars>>

----------------------------------------------------------------------------
(* The fixup applier.                                                      *)

OutOfRange == "Relocation target out of range"

LDRLiteralMask == W32(\h3fff, \hfc00)
SizeBitsMask == W32(\hc000, \h0000)
LDRLiteralOpcode == W32(\h5800, \h0010)

\* getPageOffset12Shift without the 128-bit Neon LDR case.
getPageOffset12Shift_No128(Instr) ==
    IF And64(Instr, LDRLiteralMask) = W32(\h3940, \h0000) THEN SInt(Shr64(Instr, 30))
    ELSE IF And64(Instr, LDRLiteralMask) = W32(\h3d40, \h0000) THEN SInt(Shr64(Instr, 30))
    ELSE 0

getPageOffset12Shift(Instr) ==
    IF And64(Instr, LDRLiteralMask) = W32(\h3940, \h0000) THEN SInt(Shr64(Instr, 30))
    ELSE IF And64(Instr, LDRLiteralMask) = W32(\h3d40, \h0000) THEN SInt(Shr64(Instr, 30))
    ELSE IF And64(Instr, Or64(LDRLiteralMask, SizeBitsMask)) = W32(\h3dc0, \h0000) THEN 4
    ELSE 0

\* The outcomes of applyFixup: success with the patched working memory, an
\* Error, or the end of the process (a failed assert, llvm_unreachable).
Fixed(c) == [status |-> "ok", error |-> "", content |-> c]
FixupError(msg, c) == [status |-> "error", error |-> msg, content |-> c]
Aborted(c) == [status |-> "abort", error |-> "", content |-> c]

\* assert(cond): nothing in a build without assertions, the end of the process
\* in one with them when cond is false.
AssertFails(cond) == ~ndebug /\ ~cond

\* The range test with the upper bound itself accepted.
OutOfSignedRange_UpperInclusive(Value, n) ==
    SLt64(Value, FromInt(0 - 2^n)) \/ SLt64(FromInt(2^n), Value)

\* Value < -(1 << n) || Value > ((1 << n) - 1), on int64_t: the range test of
\* the Branch26, Page21 and LDRLiteral19 cases.
OutOfSignedRange(Value, n) ==
    SLt64(Value, FromInt(0 - 2^n)) \/ SLt64(FromInt(2^n - 1), Value)

\* std::numeric_limits<int32_t>::min() and max(), and uint32_t's max().
Int32Min == <<0, HalfLimb, Limb - 1, Limb - 1>>
Int32Max == <<Limb - 1, HalfLimb - 1, 0, 0>>
UInt32Max == <<Limb - 1, Limb - 1, 0, 0>>

\* (static_cast<uint32_t>(Value) & ((1 << 28) - 1)) >> 2
Branch26Imm(Value) == Shr64(And64(Trunc32(Value), FromNat(2^28 - 1)), 2)

\* The value of a delta edge with the fixup address never the minuend.
DeltaValue_NeverNegated(kind, T, FixupAddress, A) ==
    Add64(Sub64(T, FixupAddress), A)

\* The value of a Delta32, Delta64, NegDelta32 or NegDelta64 edge.
DeltaValue(kind, T, FixupAddress, A) ==
    IF kind \in {"Delta32", "Delta64"} THEN Add64(Sub64(T, FixupAddress), A)
    ELSE Add64(Sub64(FixupAddress, T), A)

\* MachOJITLinker_arm64::applyFixup on edge E of block b, whose working
\* memory is the block's content. u is what a build without assertions does at
\* llvm_unreachable, which is undefined: "skip" (return success), "Pointer64"
\* (run another case of the switch) or "abort" (trap).
applyFixup(blks, syms, b, E, u) ==
    LET mem == blks[b].content
        off == E.offset
        FixupAddress == Add64(blks[b].address, FromNat(off))
        T == getAddress(blks, syms, E.target)
        A == E.addend
    IN
    CASE E.kind = "Branch26" ->
             LET Value == Add64(Sub64(T, FixupAddress), A)
                 RawInstr == Read32(mem, off)
                 Imm == Branch26Imm(Value)
             IN
             IF AssertFails(And64(FixupAddress, FromNat(3)) = Zero64) THEN Aborted(mem)
             ELSE IF And64(Value, FromNat(3)) # Zero64
             THEN FixupError("Branch26 target is not 32-bit aligned", mem)
             ELSE IF OutOfSignedRange(Value, 27) THEN FixupError(OutOfRange, mem)
             ELSE IF AssertFails(And64(RawInstr, BranchMask) = BranchOpcode) THEN Aborted(mem)
             ELSE Fixed(Write32(mem, off, Or64(RawInstr, Imm)))
      [] E.kind = "Pointer32" ->
             LET Value == Add64(T, A) IN
             IF ULt64(UInt32Max, Value) THEN FixupError(OutOfRange, mem)
             ELSE Fixed(Write32(mem, off, Value))
      [] E.kind = "Pointer64" ->
             Fixed(Write64(mem, off, Add64(T, A)))
      [] E.kind \in {"Page21", "GOTPage21"} ->
             LET TargetPage == And64(T, Not64(FromNat(4096 - 1)))
                 PCPage == And64(blks[b].address, Not64(FromNat(4096 - 1)))
                 PageDelta == Sub64(TargetPage, PCPage)
                 RawInstr == Read32(mem, off)
                 ImmLo == Trunc32(And64(Shr64(PageDelta, 12), FromNat(3)))
                 ImmHi == Trunc32(And64(Shr64(PageDelta, 14), W32(\h0007, \hffff)))
             IN
             IF AssertFails(A = Zero64) THEN Aborted(mem)
             ELSE IF OutOfSignedRange(PageDelta, 30) THEN FixupError(OutOfRange, mem)
             ELSE IF AssertFails(And64(RawInstr, ADRPMask) = ADRPOpcode) THEN Aborted(mem)
             ELSE Fixed(Write32(mem, off,
                                Or64(Or64(RawInstr, Shl32(ImmLo, 29)), Shl32(ImmHi, 5))))
      [] E.kind = "PageOffset12" ->
             LET TargetOffset == And64(T, FromNat(4095))
                 RawInstr == Read32(mem, off)
                 ImmShift == getPageOffset12Shift(RawInstr)
                 EncodedImm == Trunc32(Shl64(Shr64(TargetOffset, ImmShift), 10))
             IN
             IF AssertFails(A = Zero64) THEN Aborted(mem)
             ELSE IF And64(TargetOffset, FromNat(2^ImmShift - 1)) # Zero64
             THEN FixupError("PAGEOFF12 target is not aligned", mem)
             ELSE Fixed(Write32(mem, off, Or64(RawInstr, EncodedImm)))
      [] E.kind = "GOTPageOffset12" ->
             LET TargetOffset == And64(T, FromNat(4095))
                 RawInstr == Read32(mem, off)
             IN
             IF AssertFails(A = Zero64) THEN Aborted(mem)
             ELSE IF AssertFails(And64(RawInstr, LDRImm64Mask) = LDRImm64Opcode)
             THEN Aborted(mem)
             ELSE Fixed(Write32(mem, off, Or64(RawInstr, Trunc32(Shl64(TargetOffset, 10)))))
      [] E.kind = "LDRLiteral19" ->
             LET RawInstr == Read32(mem, off)
                 Delta == Sub64(T, FixupAddress)
                 EncodedImm == Shl32(Shr64(Trunc32(Delta), 2), 5)
             IN
             IF AssertFails(And64(FixupAddress, FromNat(3)) = Zero64) THEN Aborted(mem)
             ELSE IF AssertFails(A = Zero64) THEN Aborted(mem)
             ELSE IF AssertFails(RawInstr = LDRLiteralOpcode) THEN Aborted(mem)
             ELSE IF And64(Delta, FromNat(3)) # Zero64
             THEN FixupError("LDR literal target is not 32-bit aligned", mem)
             ELSE IF OutOfSignedRange(Delta, 20) THEN FixupError(OutOfRange, mem)
             ELSE Fixed(Write32(mem, off, Or64(RawInstr, EncodedImm)))
      [] E.kind \in {"Delta32", "Delta64", "NegDelta32", "NegDelta64"} ->
             LET Value == DeltaValue(E.kind, T, FixupAddress, A) IN
             IF E.kind \in {"Delta32", "NegDelta32"}
             THEN IF SLt64(Value, Int32Min) \/ SLt64(Int32Max, Value)
                  THEN FixupError(OutOfRange, mem)
                  ELSE Fixed(Write32(mem, off, Value))
             ELSE Fixed(Write64(mem, off, Value))
      [] OTHER ->
             \* llvm_unreachable("Unrecognized edge kind")
             IF ~ndebug \/ u = "abort" THEN Aborted(mem)
             ELSE IF u = "Pointer64" THEN Fixed(Write64(mem, off, Add64(T, A)))
             ELSE Fixed(mem)

\* The kinds the switch of applyFixup has a case for.
FixupKinds ==
    {"Branch26", "Pointer32", "Pointer64", "Page21", "GOTPage21", "PageOffset12",
     "GOTPageOffset12", "LDRLiteral19", "Delta32", "Delta64", "NegDelta32", "NegDelta64"}

\* What a build can do at llvm_unreachable.
Unreachable(E) == IF E.kind \in FixupKinds THEN {"none"} ELSE {"skip", "Pointer64", "abort"}

\* The first edge at or after edge i of block b, <<Len(blks) + 1, 1>> when none.
RECURSIVE EdgeFrom(_, _, _)
EdgeFrom(blks, b, i) ==
    IF b > Len(blks) THEN <<b, 1>>
    ELSE IF i > Len(blks[b].edges) THEN EdgeFrom(blks, b + 1, 1)
    ELSE <<b, i>>

\* JITLinker::fixUpBlocks, one edge: applyFixup on the block's working memory;
\* an Error ends the link.
FixupStep ==
    /\ phase = "allocated"
    /\ cursor[1] <= Len(blocks)
    /\ LET b == cursor[1]
           E == blocks[b].edges[cursor[2]]
       IN  \E u \in Unreachable(E) :
               LET r == applyFixup(blocks, symbols, b, E, u) IN
               /\ blocks' = [blocks EXCEPT ![b].content = r.content]
               /\ phase' = (IF r.status = "ok" THEN "allocated" ELSE r.status)
               /\ error' = r.error
               /\ cursor' = (IF r.status = "ok" THEN EdgeFrom(blocks, b, cursor[2] + 1)
                             ELSE cursor)
    /\ UNCHANGED <<ndebug, Relocs, RelItr, overrun, symbols, parsed, kindVars, linkVars>>

\* JITLinker::fixUpBlocks returns Error::success().
FixupDone ==
    /\ phase = "allocated"
    /\ cursor[1] > Len(blocks)
    /\ phase' = "fixed"
    /\ UNCHANGED <<ndebug, Relocs, RelItr, overrun, error, blocks, symbols, parsed, cursor,
                   kindVars, linkVars>>

\* The memory manager places the blocks and the host resolves the external
\* symbols: the two blocks of the object at any of a few final addresses (kept
\* in place, moved, moved beyond 4 GiB), the blocks the pass made after them.
FinalAddressesA == {FromNat(SectionAddress), FromNat(\h5000), W64(0, 1, 0, \h2000)}
FinalAddressesB == {FromNat(SectionAddress + BlockSize), FromNat(\h4000), W64(0, 2, 0, 0)}
BuiltBlockAddress(k) == FromNat(\h8000 + BlockSize * k)
ExternalAddress(s) == W64(0, 0, \h7000, \h100 * s)

Allocate ==
    /\ phase = "built"
    /\ \E a \in FinalAddressesA, b \in FinalAddressesB :
           blocks' = [k \in DOMAIN blocks |->
                         [blocks[k] EXCEPT !.address = IF k = 1 THEN a
                                                       ELSE IF k = 2 THEN b
                                                       ELSE BuiltBlockAddress(k)]]
    /\ symbols' = [s \in DOMAIN symbols |->
                      IF symbols[s].block = 0
                      THEN [symbols[s] EXCEPT !.address = ExternalAddress(s)]
                      ELSE symbols[s]]
    /\ phase' = "allocated"
    /\ cursor' = EdgeFrom(blocks, 1, 1)
    /\ UNCHANGED <<ndebug, Relocs, RelItr, overrun, error, parsed, kindVars, linkVars>>

----------------------------------------------------------------------------
(* SpecParse: the parser on every stream of at most MaxRelocs records drawn *)
(* from ParseRecords, then the GOT-and-stubs pass on the graph it built.   *)

ParseRecords ==
    { Rec(ARM64_RELOC_BRANCH26, 1, 1, 2, 0, 2),           \* BL foo
      Rec(ARM64_RELOC_BRANCH26, 1, 1, 2, 0, 1),           \* BL B
      Rec(ARM64_RELOC_PAGE21, 1, 1, 2, 4, 1),             \* ADRP B@PAGE
      Rec(ARM64_RELOC_PAGEOFF12, 0, 1, 2, 8, 1),          \* LDR B@PAGEOFF
      Rec(ARM64_RELOC_GOT_LOAD_PAGE21, 1, 1, 2, 4, 2),    \* ADRP foo@GOTPAGE
      Rec(ARM64_RELOC_GOT_LOAD_PAGEOFF12, 0, 1, 2, 8, 2), \* LDR foo@GOTPAGEOFF
      Rec(ARM64_RELOC_POINTER_TO_GOT, 1, 1, 2, 16, 2),    \* .long foo@GOT - .
      Rec(ARM64_RELOC_POINTER_TO_GOT, 1, 1, 2, 16, 3),    \* .long bar@GOT - .
      Rec(ARM64_RELOC_ADDEND, 0, 0, 2, 0, 8),             \* + 8, on the BL
      Rec(ARM64_RELOC_ADDEND, 0, 0, 2, 4, 8),             \* + 8, on the ADRP
      Rec(ARM64_RELOC_SUBTRACTOR, 0, 1, 3, 16, 0),        \* .quad B - A, first half
      Rec(ARM64_RELOC_UNSIGNED, 0, 1, 3, 16, 1),          \* .quad B - A, second half
      Rec(ARM64_RELOC_UNSIGNED, 0, 0, 3, 24, 0),          \* .quad A + 8
      Rec(8, 1, 1, 2, 4, 2) }                             \* TLVP_LOAD_PAGE21

\* The sequences over S of length at most n.
SeqsUpTo(S, n) == UNION {[1..k -> S] : k \in 0..n}

InitGraph(streams) ==
    /\ ndebug \in BOOLEAN
    /\ Relocs \in streams
    /\ RelItr = 1
    /\ overrun = 0
    /\ phase = "parse"
    /\ error = ""
    /\ blocks = ObjectBlocks
    /\ symbols = ObjectSymbols
    /\ parsed = <<>>
    /\ cursor = <<1, 1>>
    /\ RI = [r_type |-> 0, r_pcrel |-> 0, r_extern |-> 0, r_length |-> 0]
    /\ Kind = "none"
    /\ NotLinking

InitParse == InitGraph(SeqsUpTo(ParseRecords, MaxRelocs))

NextParse == ParseStep \/ ParseDone \/ RunGOTAndStubs

SpecParse == InitParse /\ [][NextParse]_vars

----------------------------------------------------------------------------
(* SpecRoundTrip: parse, pass, allocation and fixups on every stream of at *)
(* most MaxPairRelocs records drawn from the SUBTRACTOR and UNSIGNED       *)
(* records on the data block.                                              *)

MaxPairRelocs == 2

PairRecords ==
    { Rec(t, 0, 1, l, a, n) : t \in {ARM64_RELOC_SUBTRACTOR, ARM64_RELOC_UNSIGNED},
                              l \in {2, 3}, a \in {16, 24, 28}, n \in {0, 1, 2} }
    \cup { Rec(ARM64_RELOC_UNSIGNED, 0, 0, l, 24, 0) : l \in {2, 3} }  \* A + 8

InitRoundTrip == InitGraph(SeqsUpTo(PairRecords, MaxPairRelocs))

NextRoundTrip ==
    ParseStep \/ ParseDone \/ RunGOTAndStubs \/ Allocate \/ FixupStep \/ FixupDone

SpecRoundTrip == InitRoundTrip /\ [][NextRoundTrip]_vars

----------------------------------------------------------------------------
(* SpecPipeline: the whole link of the object on every stream of at most   *)
(* MaxRelocs records drawn from ParseRecords: parse, pass, allocation and  *)
(* fixups.                                                                 *)

InitPipeline == InitGraph(SeqsUpTo(ParseRecords, MaxRelocs))

NextPipeline ==
    ParseStep \/ ParseDone \/ RunGOTAndStubs \/ Allocate \/ FixupStep \/ FixupDone

SpecPipeline == InitPipeline /\ [][NextPipeline]_vars

----------------------------------------------------------------------------
(* SpecFixup: applyFixup on graphs of one block with one edge to one       *)
(* symbol, at the addresses around each limit the fixups test.             *)

\* The values around the limits -2^n and 2^n, and some that are not 4-aligned.
Around(n) ==
    {0 - 2^n - 4, 0 - 2^n, 4 - 2^n, 0 - 4, 0, 4, 2^n - 4, 2^n, 2^n + 4,
     1, 2, 3, 2^n - 3, 2^n + 2, 0 - 2^n - 1}

\* Displacements beyond 32 bits whose low 32 bits are in range.
Far == {W64(0, 1, 0, 0), W64(\hffff, \hfffe, \hffff, \hfff0)}

FixupCase(k, B, off, T, A, I) ==
    [kind |-> k, address |-> B, offset |-> off, target |-> T, addend |-> A, instr |-> I]

Branch26Cases ==
    { FixupCase("Branch26", FromNat(2^28), off, Add64(FromNat(2^28 + off), Sub64(v, A)), A, I) :
        off \in {0, 8}, v \in {FromInt(i) : i \in Around(27)} \cup Far,
        A \in {Zero64, FromNat(8)}, I \in {W32(\h9400, 0), W32(\h1400, 0)} }
    \cup  \* BL at 0x1000 to 0x1100, and back
    { FixupCase("Branch26", FromNat(\h1000), 0, FromNat(\h1100), Zero64, W32(\h9400, 0)),
      FixupCase("Branch26", FromNat(\h1100), 0, FromNat(\h1000), Zero64, W32(\h9400, 0)) }

PageCases ==
    { FixupCase(k, W64(0, 0, \h8000, \h2f00), off,
                Add64(Add64(W64(0, 0, \h8000, \h2000), d), FromNat(low)), A, I) :
        k \in {"Page21", "GOTPage21"}, off \in {0, \h100, \h1100},
        d \in {FromInt(i) : i \in {0 - 2^30 - 4096, 0 - 2^30, 0 - 4096, 0, 4096,
                                   2^30 - 4096, 2^30, 2^30 + 4096}} \cup Far,
        low \in {0, \h123}, A \in {Zero64, FromNat(8)},
        I \in {W32(\h9000, 0), W32(\h9000, \h0011)} }

LDRLiteralCases ==
    { FixupCase("LDRLiteral19", FromNat(2^21), off, Add64(FromNat(2^21 + off), v), Zero64,
                LDRLiteralOpcode) :
        off \in {0, 8}, v \in {FromInt(i) : i \in Around(20)} \cup Far }

PageOffsetCases ==
    { FixupCase("PageOffset12", FromNat(\h4000), 0, FromNat(\h6000 + low), A, I) :
        low \in {0, 1, 2, 4, 8, 16, \hff0, \hff8, \hff9, \hfff},
        A \in {Zero64, FromNat(8)},
        I \in {W32(\h3940, 0), W32(\h7940, 0), W32(\hb940, 0), W32(\hf940, 0),
               W32(\hf940, \h0021), W32(\h3d40, 0), W32(\h7d40, 0), W32(\hbd40, 0),
               W32(\hfd40, 0), W32(\h3dc0, 0), W32(\h3dc0, \h0041), W32(\h7dc0, 0),
               W32(\h9100, 0), W32(\hf900, 0)} }
    \cup
    { FixupCase("GOTPageOffset12", FromNat(\h4000), 0, FromNat(\h6000 + low), Zero64, I) :
        low \in {0, 8, \hff8, \hff9}, I \in {W32(\hf940, 0), W32(\hf940, \h0021)} }

PointerCases ==
    { FixupCase(k, FromNat(\h4000), 8, T, A, Zero64) :
        k \in {"Pointer32", "Pointer64", "Pointer64Anon", "Delta32", "Delta64",
               "NegDelta32", "NegDelta64"},
        T \in {Zero64, FromNat(\h4008), W32(\h7fff, \hffff), W32(\h8000, \h4008),
               W32(\hffff, \hffff), W64(0, 1, 0, 0)},
        A \in {Zero64, FromNat(8), FromInt(0 - 8)} }

FixupCases == Branch26Cases \cup PageCases \cup LDRLiteralCases \cup PageOffsetCases
              \cup PointerCases

\* The graph of a case: the block holds the instruction (or zero data) at the
\* edge's offset, the symbol is an absolute one at the target address.
CaseBlocks(c) ==
    << [address |-> c.address, size |-> c.offset + 8,
        content |-> (c.offset :> c.instr[1]) @@ (c.offset + 2 :> c.instr[2])
                    @@ (c.offset + 4 :> 0) @@ (c.offset + 6 :> 0),
        edges |-> <<Edge(c.kind, c.offset, 1, c.addend)>>, section |-> "__text"] >>
CaseSymbols(c) ==
    << [name |-> "T", block |-> 0, offset |-> 0, defined |-> TRUE, address |-> c.target] >>

InitFixup ==
    /\ ndebug \in BOOLEAN
    /\ \E c \in FixupCases :
           /\ blocks = CaseBlocks(c)
           /\ symbols = CaseSymbols(c)
    /\ parsed = blocks
    /\ Relocs = <<>>
    /\ RelItr = 1
    /\ overrun = 0
    /\ phase = "allocated"
    /\ error = ""
    /\ cursor = <<1, 1>>
    /\ RI = [r_type |-> 0, r_pcrel |-> 0, r_extern |-> 0, r_length |-> 0]
    /\ Kind = "none"
    /\ NotLinking

NextFixup == FixupStep \/ FixupDone

SpecFixup == InitFixup /\ [][NextFixup]_vars

----------------------------------------------------------------------------
(* SpecLink: jitLink_MachO_arm64 against every context: one that takes or  *)
(* declines the default passes, has a mark-live pass of its own or not,    *)
(* adds at most MaxHostPasses passes to each stage in modifyPassConfig,    *)
(* and returns success or an error from it.                                *)

MaxHostPasses == 2

HostPasses == {"hostPassA", "hostPassB"}
HostErrors == {"hostErrorA", "hostErrorB"}

\* getMarkLivePass without the fallback.
MarkLivePass_NoFallback(MarkLive) == MarkLive

\* The pass pushed to the pre-prune stage: the context's when it gave one,
\* markAllSymbolsLive otherwise.
MarkLivePass(MarkLive) == IF MarkLive # "none" THEN MarkLive ELSE "markAllSymbolsLive"

\* Where jitLink_MachO_arm64 goes once notifyFailed has returned, were the
\* return statement missing.
AfterNotifyFailed_FallThrough == "link"

\* return Ctx->notifyFailed(...): the function is over.
AfterNotifyFailed == "returned"

\* PassConfiguration Config; Triple TT(...); Ctx->shouldAddDefaultTargetPasses(TT)
ShouldAddDefaultTargetPasses ==
    /\ pc = "shouldAddDefaultTargetPasses"
    /\ \E r \in BOOLEAN :
           /\ calls' = Append(calls, <<"shouldAddDefaultTargetPasses", r>>)
           /\ pc' = IF r THEN "getMarkLivePass" ELSE "modifyPassConfig"
    /\ UNCHANGED <<Config, kindVars, graphVars>>

\* Ctx->getMarkLivePass(TT), the push of the mark-live pass and the push of the
\* GOT-and-stubs pass.
AddDefaultTargetPasses ==
    /\ pc = "getMarkLivePass"
    /\ \E MarkLive \in {"none", "hostMarkLive"} :
           /\ calls' = Append(calls, <<"getMarkLivePass", MarkLive>>)
           /\ Config' = [PrePrunePasses |-> Append(Config.PrePrunePasses, MarkLivePass(MarkLive)),
                         PostPrunePasses |-> Append(Config.PostPrunePasses, "GOTAndStubs")]
    /\ pc' = "modifyPassConfig"
    /\ UNCHANGED <<kindVars, graphVars>>

\* Ctx->modifyPassConfig(TT, Config): the context adds passes of its own to the
\* configuration and returns success ("") or an error.
ModifyPassConfig ==
    /\ pc = "modifyPassConfig"
    /\ \E pre \in SeqsUpTo(HostPasses, MaxHostPasses), post \in SeqsUpTo(HostPasses, MaxHostPasses),
          Err \in HostErrors \cup {""} :
           /\ Config' = [PrePrunePasses |-> Config.PrePrunePasses \o pre,
                         PostPrunePasses |-> Config.PostPrunePasses \o post]
           /\ calls' = Append(calls, <<"modifyPassConfig", Err>>)
           /\ pc' = IF Err # "" THEN "notifyFailed" ELSE "link"
    /\ UNCHANGED <<kindVars, graphVars>>

\* return Ctx->notifyFailed(std::move(Err));
NotifyFailed ==
    /\ pc = "notifyFailed"
    /\ calls' = Append(calls, <<"notifyFailed", calls[Len(calls)][2]>>)
    /\ pc' = AfterNotifyFailed
    /\ UNCHANGED <<Config, kindVars, graphVars>>

\* MachOJITLinker_arm64::link(std::move(Ctx), std::move(Config));
Link ==
    /\ pc = "link"
    /\ calls' = Append(calls, <<"link", Config>>)
    /\ pc' = "returned"
    /\ UNCHANGED <<Config, kindVars, graphVars>>

InitLink ==
    /\ pc = "shouldAddDefaultTargetPasses"
    /\ Config = EmptyConfig
    /\ calls = <<>>
    /\ RI = [r_type |-> 0, r_pcrel |-> 0, r_extern |-> 0, r_length |-> 0]
    /\ Kind = "none"
    /\ ndebug = TRUE
    /\ Relocs = <<>>
    /\ RelItr = 1
    /\ overrun = 0
    /\ phase = "idle"
    /\ error = ""
    /\ blocks = <<>>
    /\ symbols = <<>>
    /\ parsed = <<>>
    /\ cursor = <<1, 1>>

NextLink ==
    ShouldAddDefaultTargetPasses \/ AddDefaultTargetPasses \/ ModifyPassConfig
        \/ NotifyFailed \/ Link

SpecLink == InitLink /\ [][NextLink]_vars

----------------------------------------------------------------------------
(* SpecKind: getRelocationKind on every value of the four bit-fields it    *)
(* reads (r_type: 4 bits, r_pcrel: 1, r_extern: 1, r_length: 2).           *)

KindFields == [r_type : 0..15, r_pcrel : 0..1, r_extern : 0..1, r_length : 0..3]

InitKind ==
    /\ RI \in KindFields
    /\ Kind = "none"
    /\ ndebug = TRUE
    /\ Relocs = <<>>
    /\ RelItr = 1
    /\ overrun = 0
    /\ phase = "idle"
    /\ error = ""
    /\ blocks = <<>>
    /\ symbols = <<>>
    /\ parsed = <<>>
    /\ cursor = <<1, 1>>
    /\ NotLinking

DecodeKind ==
    /\ Kind = "none"
    /\ Kind' = getRelocationKind(RI)
    /\ UNCHANGED <<RI, graphVars, linkVars>>

NextKind == DecodeKind

SpecKind == InitKind /\ [][NextKind]_vars

----------------------------------------------------------------------------
(* The properties.                                                         *)

\* The error kinds of the specification, as sets of the code's messages.
BadRelocation ==
    { UnsupportedRelocation,
      "Unpaired Addend reloc",
      "Invalid relocation pair: Addend + kind",
      "Paired relocation points at different target",
      "arm64 SUBTRACTOR without paired UNSIGNED relocation",
      "arm64 SUBTRACTOR and paired UNSIGNED point to different addresses",
      "length of arm64 SUBTRACTOR and paired UNSIGNED reloc must match",
      "SUBTRACTOR relocation must fix up either 'A' or 'B'" }

\* The decoding table of the specification, section 6.1: r_type, r_pcrel,
\* r_extern, r_length, kind. The row with any r_extern is written twice.
DecodingTable ==
    { <<0, 0, 1, 3, "Pointer64">>,
      <<0, 0, 0, 3, "Pointer64Anon">>,
      <<0, 0, 0, 2, "Pointer32">>,
      <<0, 0, 1, 2, "Pointer32">>,
      <<1, 0, 1, 2, "Delta32">>,
      <<1, 0, 1, 3, "Delta64">>,
      <<2, 1, 1, 2, "Branch26">>,
      <<3, 1, 1, 2, "Page21">>,
      <<4, 0, 1, 2, "PageOffset12">>,
      <<5, 1, 1, 2, "GOTPage21">>,
      <<6, 0, 1, 2, "GOTPageOffset12">>,
      <<7, 1, 1, 2, "PointerToGOT">>,
      <<10, 0, 0, 2, "PairedAddend">> }

RowsOf(R) ==
    {row \in DecodingTable : /\ row[1] = R.r_type /\ row[2] = R.r_pcrel
                             /\ row[3] = R.r_extern /\ row[4] = R.r_length}

\* C1: getRelocationKind returns, for every (r_type, r_pcrel, r_extern,
\* r_length), the kind of the tuple's row in the decoding table, and the
\* unsupported-relocation error (a BadRelocation) for a tuple with no row.
C1_DecodesByTable ==
    Kind # "none" =>
        /\ RowsOf(RI) # {} => \A row \in RowsOf(RI) : Kind = row[5]
        /\ RowsOf(RI) = {} => Kind = UnsupportedRelocation /\ Kind \in BadRelocation

\* A non-extern UNSIGNED record of length 2 was decoded (the row with any r_extern).
C1_Witness ==
    /\ Kind = "Pointer32"
    /\ RI.r_type = ARM64_RELOC_UNSIGNED /\ RI.r_extern = 0 /\ RI.r_length = 2

EdgesOf(blks) == UNION { {blks[b].edges[i] : i \in 1..Len(blks[b].edges)} : b \in 1..Len(blks) }

\* C2: after addRelocations succeeds no block holds a PairedAddend edge, and
\* after the GOT-and-stubs pass has run no PointerToGOT edge remains and no
\* Branch26 edge has a target that is not defined.
C2_NoTransientLeak ==
    /\ phase \in {"parsed", "built", "abort"} =>
           \A e \in EdgesOf(blocks) : e.kind # "PairedAddend"
    /\ phase = "built" =>
           \A e \in EdgesOf(blocks) :
               /\ e.kind # "PointerToGOT"
               /\ e.kind = "Branch26" => isDefined(symbols, e.target)

\* The pass has run on a graph parsed from a stream with an ADDEND record, which
\* held a PointerToGOT edge and a Branch26 edge to an external symbol.
C2_Witness ==
    /\ phase = "built"
    /\ \E i \in 1..Len(Relocs) : Relocs[i].r_type = ARM64_RELOC_ADDEND
    /\ \E e \in EdgesOf(parsed) : e.kind = "PointerToGOT"
    /\ \E e \in EdgesOf(parsed) : e.kind = "Branch26" /\ ~isDefined(symbols, e.target)

\* The GOT entry blocks and the stub blocks of a target symbol, and the
\* symbols in a set of blocks.
GOTBlocksFor(t) ==
    {b \in 1..Len(blocks) :
        /\ blocks[b].section = "$__GOT"
        /\ \E i \in 1..Len(blocks[b].edges) : blocks[b].edges[i].target = t}
SymbolsIn(bs) == {s \in 1..Len(symbols) : symbols[s].block \in bs}
StubBlocksFor(t) ==
    {b \in 1..Len(blocks) :
        /\ blocks[b].section = "$__STUBS"
        /\ \E i \in 1..Len(blocks[b].edges) :
               blocks[b].edges[i].target \in SymbolsIn(GOTBlocksFor(t))}

\* What the edges of the parsed graph to target t became.
EdgesAfter(t, P(_)) ==
    {blocks[b].edges[i] : <<b, i>> \in
        {bi \in (1..Len(parsed)) \X (1..MaxRelocs) :
            /\ bi[2] <= Len(parsed[bi[1]].edges)
            /\ parsed[bi[1]].edges[bi[2]].target = t
            /\ P(parsed[bi[1]].edges[bi[2]])}}
WasExternalBranch(e) == e.kind = "Branch26" /\ ~isDefined(symbols, e.target)

\* C3: after the pass every target has at most one GOT entry block and at
\* most one stub block; every GOT edge to the target points at that GOT entry,
\* every external branch to it at that stub, and the stub's one edge is an
\* LDRLiteral19 edge to that same GOT entry.
C3_OneGOTEntryAndStubPerTarget ==
    phase = "built" =>
        \A t \in 1..NumSymbols :
            /\ Cardinality(GOTBlocksFor(t)) <= 1
            /\ Cardinality(SymbolsIn(GOTBlocksFor(t))) <= 1
            /\ Cardinality(StubBlocksFor(t)) <= 1
            /\ Cardinality(SymbolsIn(StubBlocksFor(t))) <= 1
            /\ \A e \in EdgesAfter(t, isGOTEdge) : e.target \in SymbolsIn(GOTBlocksFor(t))
            /\ \A e \in EdgesAfter(t, WasExternalBranch) :
                   e.target \in SymbolsIn(StubBlocksFor(t))
            /\ \A b \in StubBlocksFor(t) :
                   /\ Len(blocks[b].edges) = 1
                   /\ blocks[b].edges[1].kind = "LDRLiteral19"
                   /\ blocks[b].edges[1].target \in SymbolsIn(GOTBlocksFor(t))

\* The pass has run on a graph with two GOT edges and an external branch to foo.
C3_Witness ==
    /\ phase = "built"
    /\ Cardinality(EdgesAfter(3, isGOTEdge)) >= 2
    /\ EdgesAfter(3, WasExternalBranch) # {}

PairingKinds == {"PairedAddend", "Delta32", "Delta64"}

\* C8: when the loop of addRelocations is at the last record of the stream and
\* that record is an ADDEND or a SUBTRACTOR, the iteration fails with a
\* BadRelocation error, adds no edge, and reads no record at or past the end.
C8_UnpairedRejected ==
    [][ ( /\ phase = "parse"
          /\ RelItr = Len(Relocs)
          /\ getRelocationKind(Relocs[RelItr]) \in PairingKinds )
        => ( /\ phase' = "error"
             /\ error' \in BadRelocation
             /\ blocks' = blocks
             /\ overrun' = 0 ) ]_vars

----------------------------------------------------------------------------
(* The fixup loop is about to apply an edge of one of the kinds; the edge, *)
(* its block, the address F of the fixup and the address T of its target.  *)

FixupBlock == blocks[cursor[1]]
FixupEdge == FixupBlock.edges[cursor[2]]
Applying(kinds) ==
    phase = "allocated" /\ cursor[1] <= Len(blocks) /\ FixupEdge.kind \in kinds
AddressF == Add64(FixupBlock.address, FromNat(FixupEdge.offset))
AddressT == getAddress(blocks, symbols, FixupEdge.target)

\* The word is the 64-bit two's complement of a number in -2^n .. 2^n - 1.
InHalfOpen(V, n) == Fits31(V) /\ 0 - 2^n <= SInt(V) /\ SInt(V) < 2^n

\* The address with its offset in the 4 KiB page taken off.
PageOf(a) == Sub64(a, FromNat(a[1] % 4096))

\* The step accepts the edge when the value is in the half-open range and fails
\* with the out-of-range error when it is not.
AcceptsExactly(V, n) ==
    IF InHalfOpen(V, n) THEN phase' = "allocated" /\ error' = ""
    ELSE phase' = "error" /\ error' = OutOfRange

\* C4: applyFixup accepts a 4-aligned Branch26 value T - F + A iff it is in
\* [-2^27, 2^27), a Page21 or GOTPage21 page delta (the page of T less the page
\* of the block's address) iff it is in [-2^30, 2^30), a 4-aligned LDRLiteral19
\* value T - F iff it is in [-2^20, 2^20); everything else, the values one step
\* past either bound included, fails with the out-of-range error. (A step that
\* ends in a failed assert neither accepts nor fails.)
C4_HalfOpenRanges ==
    [][ /\ Applying({"Branch26"}) /\ phase' # "abort"
           => LET V == Add64(Sub64(AddressT, AddressF), FixupEdge.addend)
              IN  V[1] % 4 = 0 => AcceptsExactly(V, 27)
        /\ Applying({"Page21", "GOTPage21"}) /\ phase' # "abort"
           => AcceptsExactly(Sub64(PageOf(AddressT), PageOf(FixupBlock.address)), 30)
        /\ Applying({"LDRLiteral19"}) /\ phase' # "abort"
           => LET V == Sub64(AddressT, AddressF)
              IN  V[1] % 4 = 0 => AcceptsExactly(V, 20) ]_vars

\* A branch whose value is exactly 2^27 has failed with the out-of-range error.
C4_Witness ==
    /\ phase = "error" /\ error = OutOfRange
    /\ FixupEdge.kind = "Branch26"
    /\ Add64(Sub64(AddressT, AddressF), FixupEdge.addend) = FromNat(2^27)

\* The shift of a PageOffset12 instruction word, from its two 16-bit halves.
ShiftOf(hi, lo) ==
    IF lo \div 1024 = 0 /\ hi % 2^14 \in {14656, 15680} THEN hi \div 2^14
    ELSE IF lo \div 1024 = 0 /\ hi = 15808 THEN 4
    ELSE 0

\* C5: for a PageOffset12 edge with instruction word I and off = T & 0xfff,
\* the shift is I >> 30 when I & 0x3ffffc00 is 0x39400000 or 0x3d400000, 4 when
\* I & 0xfffffc00 is 0x3dc00000, and 0 otherwise; applyFixup fails with the
\* misalignment error iff off is not a multiple of 1 << shift, and otherwise
\* writes I | ((off >> shift) << 10). (A step that ends in a failed assert does
\* neither.)
C5_PageOffset12 ==
    [][ Applying({"PageOffset12"}) /\ phase' # "abort"
        => LET I == Read32(FixupBlock.content, FixupEdge.offset)
               shift == ShiftOf(I[2], I[1])
               off == AddressT[1] % 4096
               imm == (off \div 2^shift) * 1024
           IN  IF off % 2^shift # 0
               THEN phase' = "error" /\ error' = "PAGEOFF12 target is not aligned"
               ELSE /\ phase' = "allocated"
                    /\ Read32(blocks'[cursor[1]].content, FixupEdge.offset)
                         = <<Or16(I[1], imm % Limb), Or16(I[2], imm \div Limb), 0, 0>> ]_vars

\* A 64-bit LDR to an address ending in 0xff9 has failed as misaligned.
C5_Witness ==
    /\ phase = "error" /\ error = "PAGEOFF12 target is not aligned"
    /\ FixupEdge.kind = "PageOffset12"
    /\ Read32(FixupBlock.content, FixupEdge.offset) = W32(\hf940, 0)
    /\ AddressT[1] % 4096 = 4089

----------------------------------------------------------------------------
(* Parse, then fix up.                                                     *)

\* The link is still on its way.
Running == phase \in {"parse", "parsed", "built", "allocated"}

\* The block of the object that holds a section offset, and the offset in it.
ObjectBlockOf(a) ==
    CHOOSE b \in DOMAIN ObjectBlocks :
        /\ SInt(ObjectBlocks[b].address) <= SectionAddress + a
        /\ SectionAddress + a < SInt(ObjectBlocks[b].address) + ObjectBlocks[b].size
OffsetInBlock(a) == SectionAddress + a - SInt(ObjectBlocks[ObjectBlockOf(a)].address)

\* The stream is one SUBTRACTOR/UNSIGNED pair of one width on one location,
\* which lies whole in the block of the UNSIGNED record's symbol and holds 0.
PairInToBlock ==
    /\ Len(Relocs) = 2
    /\ Relocs[1].r_type = ARM64_RELOC_SUBTRACTOR /\ Relocs[1].r_extern = 1
    /\ Relocs[2].r_type = ARM64_RELOC_UNSIGNED /\ Relocs[2].r_extern = 1
    /\ Relocs[1].r_address = Relocs[2].r_address
    /\ Relocs[1].r_length = Relocs[2].r_length
    /\ LET b == ObjectBlockOf(Relocs[1].r_address)
           off == OffsetInBlock(Relocs[1].r_address)
       IN  /\ ObjectSymbols[Relocs[2].r_symbolnum + 1].block = b
           /\ off + 2^Relocs[1].r_length <= ObjectBlocks[b].size
           /\ \A o \in off .. off + 2^Relocs[1].r_length - 1 :
                  o % 2 = 0 => ObjectBlocks[b].content[o] = 0

\* C6: for a SUBTRACTOR(sym A)/UNSIGNED(sym B) pair of width 32 or 64 whose
\* fixup lies in B's block and whose original content is zero, parse and then
\* fixup, with A and B at any final addresses, end with the two's-complement
\* value B.address - A.address at the fixup location (for width 32, whenever
\* that value fits a signed 32-bit integer).
C6_RoundTripDelta ==
    PairInToBlock =>
        LET b == ObjectBlockOf(Relocs[1].r_address)
            off == OffsetInBlock(Relocs[1].r_address)
            d == Sub64(getAddress(blocks, symbols, Relocs[2].r_symbolnum + 1),
                       getAddress(blocks, symbols, Relocs[1].r_symbolnum + 1))
        IN  IF Relocs[1].r_length = 3
            THEN Running \/ (phase = "fixed" /\ Read64(blocks[b].content, off) = d)
            ELSE SExt32(Trunc32(d)) = d
                 => Running \/ (phase = "fixed" /\ Read32(blocks[b].content, off) = Trunc32(d))

\* A 32-bit pair B - A has been fixed up with A moved above B: the location
\* holds a negative difference.
C6_Witness ==
    /\ PairInToBlock /\ phase = "fixed"
    /\ Relocs[1].r_length = 2 /\ Relocs[1].r_symbolnum = 0 /\ Relocs[2].r_symbolnum = 1
    /\ blocks[1].address = FromNat(\h5000) /\ blocks[2].address = FromNat(\h4000)
    /\ Read32(blocks[2].content, OffsetInBlock(Relocs[1].r_address)) = W32(\hffff, \hf000)

\* The stream is the one Pointer64Anon relocation, on the word that holds the
\* address of A + 8.
AnonStream == Relocs = <<Rec(ARM64_RELOC_UNSIGNED, 0, 0, 3, 24, 0)>>

\* The parser's half of C7: the edge goes to the symbol found by the address
\* in the content, A, with the distance from it as the addend.
AnonEdgeParsed ==
    (AnonStream /\ phase # "parse")
        => blocks[2].edges = <<Edge("Pointer64Anon", 8, 1, FromNat(8))>>

\* C7: for a Pointer64Anon relocation whose 8-byte content holds address C, the
\* parser emits an edge to the symbol S found by address C with addend
\* C - S.address, and the fixup then writes S.final_address + (C - S.address) as
\* a 64-bit word; when S does not move the 8 bytes are left unchanged.
C7_Pointer64AnonRebased ==
    /\ AnonEdgeParsed
    /\ (AnonStream /\ ~Running)
           => /\ phase = "fixed"
              /\ Read64(blocks[2].content, 8)
                   = Add64(getAddress(blocks, symbols, 1), FromNat(8))

----------------------------------------------------------------------------
(* The link entry point.                                                   *)

\* What the context was asked, and what it answered, so far.
Asked(q) == {i \in DOMAIN calls : calls[i][1] = q}
Answer(q) == calls[CHOOSE i \in Asked(q) : TRUE][2]

\* The configuration holds the one mark-live pass (the context's, or the
\* fallback when it has none) and the GOT-and-stubs pass, and nothing else.
DefaultPassesInstalled ==
    /\ Asked("getMarkLivePass") # {}
    /\ Config.PrePrunePasses =
           << IF Answer("getMarkLivePass") = "none" THEN "markAllSymbolsLive"
              ELSE Answer("getMarkLivePass") >>
    /\ Config.PostPrunePasses = <<"GOTAndStubs">>

\* C9 as stated: whenever modifyPassConfig is about to be called, the
\* configuration holds exactly the mark-live pass in the pre-prune stage and
\* the GOT-and-stubs pass in the post-prune stage.
C9_DefaultPassesAlways ==
    pc = "modifyPassConfig" => DefaultPassesInstalled

\* C9, amended: whenever modifyPassConfig is about to be called, the
\* configuration holds exactly the mark-live pass (the context's, or the
\* fallback) in the pre-prune stage and the GOT-and-stubs pass in the post-prune
\* stage if the context answered shouldAddDefaultTargetPasses with true, and no
\* pass at all if it answered false.
C9_DefaultPassesWhenAsked ==
    pc = "modifyPassConfig" =>
        IF Answer("shouldAddDefaultTargetPasses") THEN DefaultPassesInstalled
        ELSE Config = EmptyConfig

\* The context has no mark-live pass of its own and modifyPassConfig is about
\* to be called with the fallback installed.
C9_Witness ==
    /\ pc = "modifyPassConfig"
    /\ Asked("getMarkLivePass") # {} /\ Answer("getMarkLivePass") = "none"
    /\ Config.PrePrunePasses = <<"markAllSymbolsLive">>

\* C10: once jitLink_MachO_arm64 has returned, if modifyPassConfig returned an
\* error then notifyFailed was called exactly once, with that error, and the
\* link harness was never started; if it returned success then notifyFailed was
\* not called and the harness was started exactly once.
C10_FailOrLink ==
    pc = "returned" =>
        IF Answer("modifyPassConfig") # ""
        THEN /\ Cardinality(Asked("notifyFailed")) = 1
             /\ Answer("notifyFailed") = Answer("modifyPassConfig")
             /\ Asked("link") = {}
        ELSE /\ Asked("notifyFailed") = {}
             /\ Cardinality(Asked("link")) = 1

\* modifyPassConfig has failed and jitLink_MachO_arm64 has returned after its
\* one call of notifyFailed.
C10_Witness ==
    /\ pc = "returned"
    /\ Answer("modifyPassConfig") = "hostErrorA"
    /\ Asked("notifyFailed") # {}

----------------------------------------------------------------------------
(* The words the fixups write.                                             *)

\* The 32-bit word whose halves are hi and lo with the number imm (below 2^31)
\* or-ed in.
WithImm(hi, lo, imm) == <<Or16(lo, imm % Limb), Or16(hi, imm \div Limb), 0, 0>>

\* C11: for every in-range LDRLiteral19 value V = T - F that is a multiple of
\* 4, negative values included, applyFixup writes the word
\* 0x58000010 | (((V >> 2) & 0x7ffff) << 5).
C11_LDRLiteral19Encoding ==
    [][ Applying({"LDRLiteral19"}) /\ phase' # "abort"
        => LET V == Sub64(AddressT, AddressF)
           IN  (V[1] % 4 = 0 /\ InHalfOpen(V, 20))
               => /\ phase' = "allocated"
                  /\ Read32(blocks'[cursor[1]].content, FixupEdge.offset)
                       = WithImm(22528, 16, ((SInt(V) \div 4) % 2^19) * 32) ]_vars

\* C12: for a Branch26 edge with V = T - F + A, when V is not a multiple of 4
\* applyFixup fails with the misalignment error and writes nothing; when V is
\* aligned and in range it writes (instr & 0xfc000000) | ((V >> 2) & 0x3ffffff),
\* for negative V too.
C12_Branch26Encoding ==
    [][ Applying({"Branch26"}) /\ phase' # "abort"
        => LET V == Add64(Sub64(AddressT, AddressF), FixupEdge.addend)
               I == Read32(FixupBlock.content, FixupEdge.offset)
           IN  IF V[1] % 4 # 0
               THEN /\ phase' = "error" /\ error' = "Branch26 target is not 32-bit aligned"
                    /\ blocks' = blocks
               ELSE InHalfOpen(V, 27)
                    => LET imm26 == (SInt(V) \div 4) % 2^26 IN
                       /\ phase' = "allocated"
                       /\ Read32(blocks'[cursor[1]].content, FixupEdge.offset)
                            = <<imm26 % Limb, (I[2] - (I[2] % 1024)) + (imm26 \div Limb), 0, 0>>
      ]_vars

----------------------------------------------------------------------------
(* The SUBTRACTOR/UNSIGNED pair.                                           *)

\* The address the object gives a symbol, 0 for an external one.
ObjectAddressOf(s) ==
    IF ObjectSymbols[s].block = 0 THEN 0
    ELSE SInt(ObjectBlocks[ObjectSymbols[s].block].address) + ObjectSymbols[s].offset

\* The defined symbol whose block holds address c, 0 when no block does.
SymbolCovering(c) ==
    LET Covers(s) == /\ ObjectSymbols[s].defined
                     /\ ObjectAddressOf(s) <= c
                     /\ c < ObjectAddressOf(s) + BlockSize
    IN  IF \E s \in DOMAIN ObjectSymbols : Covers(s)
        THEN CHOOSE s \in DOMAIN ObjectSymbols : Covers(s)
        ELSE 0

\* The parser is at a SUBTRACTOR record that an UNSIGNED record follows, and
\* the location of the SUBTRACTOR record lies whole in its block.
AtSubtractorPair ==
    /\ phase = "parse" /\ RelItr < Len(Relocs)
    /\ Relocs[RelItr].r_type = ARM64_RELOC_SUBTRACTOR
    /\ Relocs[RelItr + 1].r_type = ARM64_RELOC_UNSIGNED
    /\ OffsetInBlock(Relocs[RelItr].r_address) + 2^Relocs[RelItr].r_length <= BlockSize

\* C13: a SUBTRACTOR record followed by an UNSIGNED record with the same
\* r_address and r_length gives exactly one edge: (Delta32|Delta64, ToSymbol,
\* FixupValue + (FixupAddress - FromSymbol.address)) when the fix block is
\* FromSymbol's, otherwise (NegDelta32|NegDelta64, FromSymbol,
\* FixupValue - (FixupAddress - ToSymbol.address)) when it is ToSymbol's,
\* otherwise a BadRelocation error and no edge; a pair that disagrees on
\* r_address or r_length fails with BadRelocation. ToSymbol is found by index
\* when the UNSIGNED record is extern, otherwise by the address stored in the
\* content, and FixupValue is then reduced by ToSymbol.address. The content of
\* the locations is below 2^31, so the stored value is its two low limbs.
C13_SubtractorPair ==
    [][ AtSubtractorPair =>
        LET S == Relocs[RelItr]
            U == Relocs[RelItr + 1]
            b == ObjectBlockOf(S.r_address)
            off == OffsetInBlock(S.r_address)
            F == SectionAddress + S.r_address
            C == blocks[b].content[off] + Limb * blocks[b].content[off + 2]
            From == S.r_symbolnum + 1
            To == IF U.r_extern = 1 THEN U.r_symbolnum + 1 ELSE SymbolCovering(C)
            V == IF U.r_extern = 1 THEN C ELSE C - ObjectAddressOf(To)
            OneEdge(kind, target, addend) ==
                /\ phase' = "parse" /\ RelItr' = RelItr + 2
                /\ blocks' = [blocks EXCEPT
                                ![b].edges = Append(@, Edge(kind, off, target, FromInt(addend)))]
        IN  IF U.r_address # S.r_address \/ U.r_length # S.r_length
            THEN phase' = "error" /\ error' \in BadRelocation /\ blocks' = blocks
            ELSE To # 0 =>
                 IF ObjectSymbols[From].block = b
                 THEN OneEdge(IF S.r_length = 3 THEN "Delta64" ELSE "Delta32", To,
                              V + (F - ObjectAddressOf(From)))
                 ELSE IF ObjectSymbols[To].block = b
                 THEN OneEdge(IF S.r_length = 3 THEN "NegDelta64" ELSE "NegDelta32", From,
                              V - (F - ObjectAddressOf(To)))
                 ELSE phase' = "error" /\ error' \in BadRelocation /\ blocks' = blocks
      ]_vars

\* The pair "A - B" on the second word of B's block, which holds \h1008, has
\* given one NegDelta64 edge to A with addend \h1008 - 8.
C13_Witness ==
    /\ Relocs = << Rec(ARM64_RELOC_SUBTRACTOR, 0, 1, 3, 24, 0),
                   Rec(ARM64_RELOC_UNSIGNED, 0, 1, 3, 24, 1) >>
    /\ phase = "parse" /\ RelItr = 3
    /\ blocks[2].edges = <<Edge("NegDelta64", 8, 1, FromNat(\h1000))>>

----------------------------------------------------------------------------
(* The ADRP page delta.                                                    *)

\* The 21-bit immediate of an ADRP word: immlo in bits 30:29, immhi in bits
\* 23:5.
ADRPImm21(w) == ((w[2] \div 8192) % 4) + 4 * ((w[1] \div 32) + 2048 * (w[2] % 256))

\* C14: the ADRP fixup of Page21 and GOTPage21 is relative to the page of the
\* instruction: for every block address and edge offset, blocks that are not
\* page-aligned and offsets of 4096 and more included, the 21-bit immediate
\* written is ((T & ~0xfff) - (F & ~0xfff)) >> 12 with F = B.address + E.offset.
C14_ADRPPageOfInstruction ==
    [][ Applying({"Page21", "GOTPage21"}) /\ phase' = "allocated"
        => LET D == Sub64(PageOf(AddressT), PageOf(AddressF))
           IN  Fits31(D)
               => ADRPImm21(Read32(blocks'[cursor[1]].content, FixupEdge.offset))
                    = (SInt(D) \div 4096) % 2^21 ]_vars

----------------------------------------------------------------------------
(* The addends of the edges whose fixups require a zero addend.            *)

\* The edges of the graph that fixExternalBranchEdge is about to visit: the
\* Branch26 edges to symbols that are not defined.
ExternalBranchEdges ==
    { E \in EdgesOf(blocks) :
        E.kind = "Branch26" /\ ~isDefined(symbols, E.target) }

\* C15: after any stream the parser accepts, ADDEND records with a non-zero
\* r_symbolnum included, every Page21 and PageOffset12 edge that reaches
\* applyFixup has addend 0, and every Branch26 edge to an undefined symbol that
\* reaches fixExternalBranchEdge has addend 0.
C15_ZeroAddends ==
    /\ Applying({"Page21", "PageOffset12"}) => FixupEdge.addend = Zero64
    /\ phase = "parsed" => \A E \in ExternalBranchEdges : E.addend = Zero64

============================================================================
